---- MODULE Spec2Model ----
(***************************************************************************)
(* Model of app.py: the Streamlit home-inspection assistant.               *)
(*                                                                         *)
(* One browser session is modelled.  Streamlit re-runs main() from the top *)
(* on every widget event; the widget values (uploaded file, the two text   *)
(* areas) persist between runs.  A run that presses an analyze button      *)
(* enters analyze_image / analyze_defect, whose progress is followed step  *)
(* by step (process_image, request built, request sent, response, render). *)
(*                                                                         *)
(* Strings are TLA+ strings; an image file is a record of the attributes   *)
(* the code depends on: byte size, whether PIL can decode it, its mode and *)
(* its pixel dimensions.                                                   *)
(***************************************************************************)
EXTENDS Integers, Sequences, FiniteSets, TLC

(***************************************************************************)
(* Program constants.                                                      *)
(***************************************************************************)
MAX_WIDTH == 800
MAX_HEIGHT == 800
JPEG_QUALITY == 70
MAX_TOKENS == 1000
MAX_UPLOAD_BYTES == 5 * 1024 * 1024
CONTEXT_LIMIT == 500
DEFECT_LIMIT == 1000
MODEL_ID == "gpt-4o-mini-2024-07-18"
DATA_URI_PREFIX == "data:image/jpeg;base64,"

(***************************************************************************)
(* Texts (the prompts, what the user types, the message sent) are          *)
(* sequences of Unicode code points, as Python's str is.  Codes turns a    *)
(* literal of this module into its code points.                            *)
(***************************************************************************)
ASCII_32_TO_95 ==
    " !\"#$%&'()*+,-./0123456789:;<=>?@ABCDEFGHIJKLMNOPQRSTUVWXYZ[\\]^_"

ASCII_97_TO_126 == "abcdefghijklmnopqrstuvwxyz{|}~"

Ord(ch) ==
    IF ch = "\n" THEN 10
    ELSE IF \E i \in 1..Len(ASCII_32_TO_95) : SubSeq(ASCII_32_TO_95, i, i) = ch
    THEN 31 + (CHOOSE i \in 1..Len(ASCII_32_TO_95) :
                   SubSeq(ASCII_32_TO_95, i, i) = ch)
    ELSE 96 + (CHOOSE i \in 1..Len(ASCII_97_TO_126) :
                   SubSeq(ASCII_97_TO_126, i, i) = ch)

Codes(s) == [i \in 1..Len(s) |-> Ord(SubSeq(s, i, i))]

IMAGE_ANALYSIS_PROMPT ==
    Codes("Please analyze the given image along with any provided text context (if any) and provide an analysis "
          \o "of any deficiencies or conditions, safety concerns, functionality issues, etc.")

DEFECT_ANALYSIS_PROMPT ==
    Codes("Please analyze the given deficiency comment and provide a more detailed breakdown of the comment "
          \o "to allow for better understanding.")

CONTEXT_PLACEHOLDER ==
    Codes("Provide any relevant context about the image (e.g., location, age of home, specific concerns).")

DEFECT_PLACEHOLDER ==
    Codes("Provide the defect description or inspection narrative here...")

(***************************************************************************)
(* Bounds of the model: how far past each limit the inputs go.             *)
(***************************************************************************)
MaxOver == 2

(***************************************************************************)
(* Input universe.                                                         *)
(***************************************************************************)
\* A text of exactly n characters whose characters depend on the position.
Letters(n) == [i \in 1..n |-> 97 + ((i - 1) % 7)]

Spaces(n) == [i \in 1..n |-> 32]

Overs == 1..MaxOver

ContextInputs ==
    {<<>>, CONTEXT_PLACEHOLDER, Letters(CONTEXT_LIMIT)}
        \cup {Letters(CONTEXT_LIMIT + k) : k \in Overs}

\* Among them: the empty text, texts of whitespace only (tab, line feed,
\* vertical tab, form feed, carriage return, space; no-break space, next
\* line, em space, ideographic space) and a word with whitespace around it.
DefectInputs ==
    {<<>>, <<9, 10, 11, 12, 13, 32>>, <<160, 133, 8195, 12288>>,
     <<160, 100, 97, 109, 112, 8195>>,
     DEFECT_PLACEHOLDER, Letters(DEFECT_LIMIT)}
        \cup {Letters(DEFECT_LIMIT + k) : k \in Overs}
        \cup {Spaces(DEFECT_LIMIT + 1)}

Dims == {1, 800, 1200} \cup {MAX_WIDTH + k : k \in Overs}

\* Dimensions at which the two candidates of thumbnail are equally close.
TieDims == {<<3, 960>>, <<141, 960>>, <<1, 1600>>, <<1000, 3>>}

Sizes == {MAX_UPLOAD_BYTES} \cup {MAX_UPLOAD_BYTES + k : k \in Overs}

NoFile == [present |-> FALSE, size |-> 0, mode |-> "none", w |-> 0, h |-> 0]

File(size, mode, w, h) ==
    [present |-> TRUE, size |-> size, mode |-> mode, w |-> w, h |-> h]

\* mode "bad": bytes PIL cannot identify; "RGB": an ordinary JPEG/PNG;
\* "RGBA": a PNG with alpha, which PIL decodes but cannot write as JPEG.
\* Every pair of dimensions occurs at the largest accepted size, and every
\* size occurs for each mode.
Files ==
    {File(s, "bad", 0, 0) : s \in Sizes}
        \cup {File(MAX_UPLOAD_BYTES, "RGB", w, h) : w \in Dims, h \in Dims}
        \cup {File(s, m, 1200, 900) : s \in Sizes, m \in {"RGB", "RGBA"}}
        \cup {File(MAX_UPLOAD_BYTES, "RGB", d[1], d[2]) : d \in TieDims}

(***************************************************************************)
(* Exception classes and their direct bases: the builtin ones, PIL's and   *)
(* those of the openai package that the paths modelled here can meet.      *)
(***************************************************************************)
ClassBases ==
    [BaseException |-> {},
     Exception |-> {"BaseException"},
     KeyboardInterrupt |-> {"BaseException"},
     SystemExit |-> {"BaseException"},
     GeneratorExit |-> {"BaseException"},
     BaseExceptionGroup |-> {"BaseException"},
     CancelledError |-> {"BaseException"},
     ExceptionGroup |-> {"BaseExceptionGroup", "Exception"},
     ArithmeticError |-> {"Exception"},
     AttributeError |-> {"Exception"},
     LookupError |-> {"Exception"},
     IndexError |-> {"LookupError"},
     KeyError |-> {"LookupError"},
     MemoryError |-> {"Exception"},
     OSError |-> {"Exception"},
     FileNotFoundError |-> {"OSError"},
     TimeoutError |-> {"OSError"},
     UnidentifiedImageError |-> {"OSError"},
     RuntimeError |-> {"Exception"},
     TypeError |-> {"Exception"},
     ValueError |-> {"Exception"},
     OpenAIError |-> {"Exception"},
     APIError |-> {"OpenAIError"},
     APIConnectionError |-> {"APIError"},
     APITimeoutError |-> {"APIConnectionError"},
     APIStatusError |-> {"APIError"},
     AuthenticationError |-> {"APIStatusError"},
     BadRequestError |-> {"APIStatusError"},
     InternalServerError |-> {"APIStatusError"},
     RateLimitError |-> {"APIStatusError"}]

\* the class and all its ancestors
RECURSIVE Ancestors(_)
Ancestors(cls) == {cls} \cup UNION {Ancestors(b) : b \in ClassBases[cls]}

\* issubclass(cls, base)
IsSubclass(cls, base) == base \in Ancestors(cls)

(***************************************************************************)
(* Values returned or raised by the Python functions.                      *)
(***************************************************************************)
Return(v) == [tag |-> "return", value |-> v]

Raise(cls, msg) == [tag |-> "raise", cls |-> cls, value |-> msg]

Pending == [tag |-> "pending", value |-> ""]

(***************************************************************************)
(* init_openai_client: st.secrets["OPENAI_API_KEY"] raises KeyError when   *)
(* the secret is absent, and the constructor OpenAI(...) may raise; the    *)
(* handler (except Exception) reports and returns None.                    *)
(***************************************************************************)
ConstructOutcomes ==
    {Return("client"),
     Raise("TypeError", "Client.__init__() got an unexpected keyword argument 'proxies'"),
     Raise("OpenAIError", "The api_key client option must be set"),
     Raise("KeyboardInterrupt", "")}

init_openai_client_handler(e) ==
    IF IsSubclass(e.cls, "Exception") THEN Return("None") ELSE e

init_openai_client(sec, ctor) ==
    IF ~sec THEN init_openai_client_handler(Raise("KeyError", "'OPENAI_API_KEY'"))
    ELSE IF ctor.tag = "raise" THEN init_openai_client_handler(ctor)
    ELSE Return("client")

(***************************************************************************)
(* PIL Image.thumbnail((MAX_WIDTH, MAX_HEIGHT)) on a w x h image:          *)
(* unchanged when already within the box, otherwise the dimension that     *)
(* overflows more is set to the box and the other one is the floor or the  *)
(* ceiling of the scaled value, whichever keeps the aspect ratio closer,   *)
(* and at least 1.  PIL compares the two candidates in double precision:   *)
(*     min(floor, ceil, key=lambda n: abs(aspect - n / y))                 *)
(* Where the two keys differ as real numbers the doubles order them the    *)
(* same way, so integers decide.  Where they are equal as real numbers     *)
(* the rounding errors of the three divisions decide, and those are        *)
(* computed below (the subtractions are exact: their operands are within   *)
(* a factor of two of each other).                                         *)
(***************************************************************************)
Abs(n) == IF n < 0 THEN -n ELSE n

Max(a, b) == IF a >= b THEN a ELSE b

CeilDiv(a, b) == (a \div b) + (IF a % b = 0 THEN 0 ELSE 1)

MANTISSA_BITS == 52

\* The remainder and the last quotient bit after the given number of further
\* binary digits of a quotient with remainder r so far and divisor q.
RECURSIVE LongDivision(_, _, _, _)
LongDivision(r, q, bit, digits) ==
    IF digits = 0 THEN <<r, bit>>
    ELSE IF 2 * r >= q THEN LongDivision(2 * r - q, q, 1, digits - 1)
    ELSE LongDivision(2 * r, q, 0, digits - 1)

\* The rounding error of the double p / q, for integers p >= 0 and q > 0:
\* double(p / q) - p / q = n / q * 2^(shift - 52), round to nearest, ties to
\* even.
DivisionError(p, q) ==
    IF p = 0 THEN [n |-> 0, q |-> q, shift |-> 0]
    ELSE LET up == CHOOSE k \in 0..30 :
                       p * 2^k >= q /\ (k = 0 \/ p * 2^(k - 1) < q)
             down == CHOOSE e \in 0..30 : q * 2^e <= p /\ q * 2^(e + 1) > p
             pp == IF p >= q THEN p ELSE p * 2^up
             qq == IF p >= q THEN q * 2^down ELSE q
             d == LongDivision(pp - qq, qq, 1, MANTISSA_BITS)
             r == d[1]
             roundUp == 2 * r > qq \/ (2 * r = qq /\ d[2] = 1)
         IN  [n |-> IF roundUp THEN qq - r ELSE -r,
              q |-> q,
              shift |-> IF p >= q THEN 0 ELSE -up]

Min3(a, b, c) ==
    IF a <= b /\ a <= c THEN a ELSE IF b <= c THEN b ELSE c

\* 2 * ea <= e1 + e2, for three rounding errors
TwiceAtMostSum(ea, e1, e2) ==
    LET m == Min3(ea.shift, e1.shift, e2.shift)
        na == ea.n * 2^(ea.shift - m)
        n1 == e1.n * 2^(e1.shift - m)
        n2 == e2.n * 2^(e2.shift - m)
    IN  2 * na * e1.q * e2.q <= n1 * ea.q * e2.q + n2 * ea.q * e1.q

\* e1 + e2 <= 2 * ea
SumAtMostTwice(ea, e1, e2) ==
    LET m == Min3(ea.shift, e1.shift, e2.shift)
        na == ea.n * 2^(ea.shift - m)
        n1 == e1.n * 2^(e1.shift - m)
        n2 == e2.n * 2^(e2.shift - m)
    IN  n1 * ea.q * e2.q + n2 * ea.q * e1.q <= 2 * na * e1.q * e2.q

\* resize((MAX_WIDTH, MAX_HEIGHT)) in place of thumbnail
thumbnail_resize(w, h) == <<MAX_WIDTH, MAX_HEIGHT>>

thumbnail(w, h) ==
    LET x == MAX_WIDTH
        y == MAX_HEIGHT
    IN  IF x >= w /\ y >= h THEN <<w, h>>
        ELSE IF x * h >= y * w
             THEN \* x / y >= aspect: x = round_aspect(y * aspect),
                  \* key(n) = |aspect - n / y|
                  LET fl == (y * w) \div h
                      ce == CeilDiv(y * w, h)
                      key(n) == Abs(w * y - n * h)
                      floorWins ==
                          IF fl # ce /\ key(fl) = key(ce)
                          THEN \* aspect - fl / y <= ce / y - aspect in doubles
                               TwiceAtMostSum(DivisionError(w, h),
                                              DivisionError(fl, y),
                                              DivisionError(ce, y))
                          ELSE key(fl) <= key(ce)
                      best == IF floorWins THEN fl ELSE ce
                  IN  <<Max(best, 1), y>>
             ELSE \* y = round_aspect(x / aspect),
                  \* key(n) = 0 if n = 0 else |aspect - x / n|
                  LET fl == (x * h) \div w
                      ce == CeilDiv(x * h, w)
                      key(n) == Abs(w * n - x * h)
                      floorWins ==
                          IF fl = 0 THEN TRUE
                          ELSE IF fl # ce /\ key(fl) * ce = key(ce) * fl
                          THEN \* x / fl - aspect <= aspect - x / ce in doubles
                               SumAtMostTwice(DivisionError(w, h),
                                              DivisionError(x, fl),
                                              DivisionError(x, ce))
                          ELSE key(fl) * ce <= key(ce) * fl
                      best == IF floorWins THEN fl ELSE ce
                  IN  <<x, Max(best, 1)>>

(***************************************************************************)
(* process_image: open, thumbnail, save as JPEG quality 70, base64.  Any   *)
(* exception is logged and re-raised as Exception("Error processing        *)
(* image: ...").  The base64 text is kept as the record of the encoded     *)
(* image it stands for.                                                    *)
(***************************************************************************)
ImageOpen(f) ==
    IF f.mode = "bad"
    THEN Raise("UnidentifiedImageError", "cannot identify image file")
    ELSE IF f.mode = "none"
    THEN Raise("AttributeError", "'NoneType' object has no attribute 'read'")
    ELSE Return("")

ImageSave(f) ==
    IF f.mode = "RGBA"
    THEN Raise("OSError", "cannot write mode RGBA as JPEG")
    ELSE Return("")

Encoded(f) ==
    LET d == thumbnail(f.w, f.h)
    IN  [w |-> d[1], h |-> d[2], format |-> "JPEG", quality |-> JPEG_QUALITY]

NoImage == [w |-> 0, h |-> 0, format |-> "none", quality |-> 0]

\* except Exception as e: raise Exception(f"Error processing image: {str(e)}")
process_image_handler(e) ==
    IF IsSubclass(e.cls, "Exception")
    THEN Raise("Exception", "Error processing image: " \o e.value)
    ELSE e

\* the failure comes back as a string, and the caller goes on with it
process_image_returns_error(f) ==
    IF ImageOpen(f).tag = "raise"
    THEN [tag |-> "return", value |-> process_image_handler(ImageOpen(f)).value,
          image |-> NoImage]
    ELSE IF ImageSave(f).tag = "raise"
    THEN [tag |-> "return", value |-> process_image_handler(ImageSave(f)).value,
          image |-> NoImage]
    ELSE [tag |-> "return", value |-> "", image |-> Encoded(f)]

process_image(f) ==
    IF ImageOpen(f).tag = "raise" THEN process_image_handler(ImageOpen(f))
    ELSE IF ImageSave(f).tag = "raise" THEN process_image_handler(ImageSave(f))
    ELSE [tag |-> "return", value |-> "", image |-> Encoded(f)]

(***************************************************************************)
(* The requests passed to client.chat.completions.create.                  *)
(***************************************************************************)
NoRequest ==
    [kind |-> "none", model |-> "", text |-> <<>>, url_prefix |-> "",
     payload |-> NoImage, max_tokens |-> 0]

\* the context placed before the prompt
ImageRequest_swapped(image, context, prompt) ==
    [kind |-> "image", model |-> MODEL_ID,
     text |-> context \o Codes("\n\nContext: ") \o prompt,
     url_prefix |-> DATA_URI_PREFIX, payload |-> image,
     max_tokens |-> MAX_TOKENS]

ImageRequest(image, context, prompt) ==
    [kind |-> "image", model |-> MODEL_ID,
     text |-> prompt \o Codes("\n\nContext: ") \o context,
     url_prefix |-> DATA_URI_PREFIX, payload |-> image,
     max_tokens |-> MAX_TOKENS]

DefectRequest(defect_text, prompt) ==
    [kind |-> "defect", model |-> MODEL_ID,
     text |-> prompt \o Codes("\n\nDefect Comment: ") \o defect_text,
     url_prefix |-> "", payload |-> NoImage, max_tokens |-> MAX_TOKENS]

(***************************************************************************)
(* What one call of client.chat.completions.create followed by             *)
(* response.choices[0].message.content can produce.                        *)
(***************************************************************************)
Outcomes ==
    {Return("The photo shows a cracked foundation wall."),
     Return(""),
     Raise("APIConnectionError", "Connection error."),
     Raise("AuthenticationError", "Error code: 401 - Incorrect API key provided"),
     Raise("InternalServerError", "Error code: 500 - The server had an error"),
     Raise("RateLimitError", "Error code: 429 - Rate limit reached"),
     Raise("APITimeoutError", "Request timed out."),
     Raise("TypeError", "'NoneType' object is not subscriptable"),
     Raise("IndexError", "list index out of range")}

\* except openai.OpenAIError in place of except Exception
Catches_openai_only(e) == IsSubclass(e.cls, "OpenAIError")

\* except Exception as e: return f"Error: {str(e)}"
Catches(e) == IsSubclass(e.cls, "Exception")

analyze_handler(e) ==
    IF Catches(e) THEN Return("Error: " \o e.value) ELSE e

(***************************************************************************)
(* The presentation layer's input checks in main().                        *)
(***************************************************************************)
\* the slice taken one character too long
Truncate_off_by_one(s, limit) ==
    IF Len(s) > limit THEN SubSeq(s, 1, limit + 1) ELSE s

Truncate(s, limit) == IF Len(s) > limit THEN SubSeq(s, 1, limit) ELSE s

\* The code points str.isspace() holds for: tab, line feed, vertical tab,
\* form feed, carriage return, U+001C to U+001F, space, U+0085, U+00A0,
\* U+1680, U+2000 to U+200A, U+2028, U+2029, U+202F, U+205F, U+3000.
Whitespace ==
    (9..13) \cup (28..32) \cup {133, 160, 5760} \cup (8192..8202)
        \cup {8232, 8233, 8239, 8287, 12288}

\* s.strip(): s without its leading and trailing whitespace
IsSpace(s, i) == s[i] \in Whitespace

Strip(s) ==
    IF \A i \in 1..Len(s) : IsSpace(s, i) THEN <<>>
    ELSE LET first == CHOOSE i \in 1..Len(s) :
                          ~IsSpace(s, i) /\ \A j \in 1..(i - 1) : IsSpace(s, j)
             last == CHOOSE i \in 1..Len(s) :
                          ~IsSpace(s, i) /\ \A j \in (i + 1)..Len(s) : IsSpace(s, j)
         IN  SubSeq(s, first, last)

\* "if defect_text is None" in place of "if not defect_text.strip()"
DefectBlocked_never(defect_text) == FALSE

DefectBlocked(defect_text) == Strip(defect_text) = <<>>

ImageBlocked(f) == ~f.present

TooLarge(f) == f.size > MAX_UPLOAD_BYTES

\* main() without the early return
MainHalts_never(c) == FALSE

MainHalts(c) == c = "None"

(***************************************************************************)
(* State.                                                                  *)
(***************************************************************************)
VARIABLES
    secret,         \* st.secrets holds OPENAI_API_KEY
    construct,      \* what the constructor OpenAI(...) does in this installation
    client,         \* the client of the last run of main(): "unset", "None", "client"
    rendered,       \* the last run of main() got as far as drawing the widgets
    uploaded_file,  \* value of the file uploader widget
    context_input,  \* value of the context text area
    defect_input,   \* value of the defect text area
    pressed,        \* the button whose press started the last run: "none", "image", "defect"
    pc,             \* position of the run: "idle", "process_image", "build", "built", "sent", "returned"
    core,           \* core function entered by the run: "none", "analyze_image", "analyze_defect"
    arg_file,       \* image_file argument of the core call
    arg_text,       \* context / defect_text argument of the core call
    arg_prompt,     \* prompt argument of the core call
    normalized,     \* what process_image returned or raised in this call
    request,        \* the request handed to client.chat.completions.create
    reqState,       \* "None", "Built", "Sent", "Succeeded", "Failed"
    calls,          \* calls of client.chat.completions.create since the press
    inflight,       \* requests sent and not yet answered
    failure,        \* the exception raised inside the core call, if any
    result,         \* what the core call returned or raised to main()
    messages,       \* what the last run of main() put on the page
    initFailed      \* some run of main() got None from init_openai_client

vars ==
    <<secret, construct, client, rendered, uploaded_file, context_input, defect_input,
      pressed, pc, core, arg_file, arg_text, arg_prompt, normalized, request, reqState,
      calls, inflight, failure, result, messages, initFailed>>

widgets == <<uploaded_file, context_input, defect_input>>

NoFailure == [tag |-> "none", cls |-> "", value |-> ""]

Init ==
    /\ secret \in BOOLEAN
    /\ construct \in ConstructOutcomes
    /\ client = "unset"
    /\ rendered = FALSE
    /\ uploaded_file = NoFile
    /\ context_input = CONTEXT_PLACEHOLDER
    /\ defect_input = DEFECT_PLACEHOLDER
    /\ pressed = "none"
    /\ pc = "idle"
    /\ core = "none"
    /\ arg_file = NoFile
    /\ arg_text = <<>>
    /\ arg_prompt = <<>>
    /\ normalized = Pending
    /\ request = NoRequest
    /\ reqState = "None"
    /\ calls = 0
    /\ inflight = 0
    /\ failure = NoFailure
    /\ result = Pending
    /\ messages = {}
    /\ initFailed = FALSE

(***************************************************************************)
(* The part of main() every run executes before the buttons: lines 187-199 *)
(* (size check and preview) and the two length warnings.                   *)
(***************************************************************************)
UploadMessages(f) ==
    IF ~f.present THEN {}
    ELSE IF TooLarge(f) THEN {"error: exceeds the 5MB size limit"}
    ELSE IF ImageOpen(f).tag = "raise" THEN {"error: displaying image"}
    ELSE {"image preview"}

\* lines 208-209, in tab 1
ContextLengthMessages(context) ==
    IF Len(context) > CONTEXT_LIMIT THEN {"warning: context over 500"} ELSE {}

\* lines 238-239, in tab 2: reached only when tab 1 is over
DefectLengthMessages(defect_text) ==
    IF Len(defect_text) > DEFECT_LIMIT THEN {"warning: defect over 1000"} ELSE {}

Tab1Messages(f, context) ==
    UploadMessages(f) \cup ContextLengthMessages(context)

PageMessages(f, context, defect_text) ==
    Tab1Messages(f, context) \cup DefectLengthMessages(defect_text)

\* lines 167-170 of main(): what init_openai_client gave, and whether the
\* run ends there (an exception the handler let through, or None).
ClientOf(r) == IF r.tag = "return" THEN r.value ELSE "unset"

Stops(r) == r.tag = "raise" \/ MainHalts(r.value)

\* line 32: init_openai_client reports its own failure on the page
InitErrors(r) ==
    IF r.tag = "return" /\ r.value = "None"
    THEN {"error: initializing client"} ELSE {}

StopMessages(r) ==
    IF r.tag = "raise" THEN {"uncaught exception"}
    ELSE InitErrors(r) \cup {"error: failed to initialize"}

\* A run of main() in which no button is pressed, with the given widget values.
Rerun(f, context, defect_text) ==
    LET r == init_openai_client(secret, construct)
    IN  /\ client' = ClientOf(r)
        /\ pressed' = "none"
        /\ IF Stops(r)
           THEN /\ rendered' = FALSE
                /\ messages' = StopMessages(r)
           ELSE /\ rendered' = TRUE
                /\ messages' = InitErrors(r) \cup PageMessages(f, context, defect_text)
        /\ initFailed' = (initFailed \/ ClientOf(r) = "None")
        /\ core' = "none"
        /\ arg_file' = NoFile
        /\ arg_text' = <<>>
        /\ arg_prompt' = <<>>
        /\ normalized' = Pending
        /\ request' = NoRequest
        /\ reqState' = "None"
        /\ calls' = 0
        /\ result' = Pending
        /\ failure' = NoFailure
        /\ UNCHANGED <<secret, construct, pc, inflight>>

\* The browser opens or reloads the page.
Load ==
    /\ pc = "idle"
    /\ Rerun(uploaded_file, context_input, defect_input)
    /\ UNCHANGED widgets

Upload(f) ==
    /\ pc = "idle"
    /\ rendered
    /\ f # uploaded_file
    /\ uploaded_file' = f
    /\ Rerun(f, context_input, defect_input)
    /\ UNCHANGED <<context_input, defect_input>>

EditContext(t) ==
    /\ pc = "idle"
    /\ rendered
    /\ t # context_input
    /\ context_input' = t
    /\ Rerun(uploaded_file, t, defect_input)
    /\ UNCHANGED <<uploaded_file, defect_input>>

EditDefect(t) ==
    /\ pc = "idle"
    /\ rendered
    /\ t # defect_input
    /\ defect_input' = t
    /\ Rerun(uploaded_file, context_input, t)
    /\ UNCHANGED <<uploaded_file, context_input>>

(***************************************************************************)
(* The analyze buttons: lines 213-223 and 243-253 of main().  The run      *)
(* starts like any other (client, size check, truncation) and then either  *)
(* warns or enters the core function.                                      *)
(***************************************************************************)
EnterCore(fn, f, text, prompt, first) ==
    /\ core' = fn
    /\ arg_file' = f
    /\ arg_text' = text
    /\ arg_prompt' = prompt
    /\ pc' = first

SkipCore ==
    /\ core' = "none"
    /\ arg_file' = NoFile
    /\ arg_text' = <<>>
    /\ arg_prompt' = <<>>
    /\ pc' = "idle"

StartRun(button) ==
    /\ pc = "idle"
    /\ rendered
    /\ client' = ClientOf(init_openai_client(secret, construct))
    /\ pressed' = button
    /\ normalized' = Pending
    /\ request' = NoRequest
    /\ reqState' = "None"
    /\ calls' = 0
    /\ result' = Pending
    /\ failure' = NoFailure
    /\ UNCHANGED <<secret, construct, inflight, widgets>>

PressAnalyzeImage ==
    LET r == init_openai_client(secret, construct)
        context == Truncate(context_input, CONTEXT_LIMIT)
        tab1 == InitErrors(r) \cup Tab1Messages(uploaded_file, context_input)
    IN  /\ initFailed' = (initFailed \/ ClientOf(r) = "None")
        /\ StartRun("image")
        /\ IF Stops(r)
           THEN /\ rendered' = FALSE
                /\ messages' = StopMessages(r)
                /\ SkipCore
           ELSE /\ rendered' = TRUE
                /\ IF ImageBlocked(uploaded_file)
                   THEN \* the run goes on through tab 2 to its end
                        /\ messages' = tab1 \cup {"warning: please upload an image"}
                                           \cup DefectLengthMessages(defect_input)
                        /\ SkipCore
                   ELSE \* the run blocks in tab 1, before tab 2 is reached
                        /\ messages' = tab1 \cup {"spinner"}
                        /\ EnterCore("analyze_image", uploaded_file, context,
                                     IMAGE_ANALYSIS_PROMPT, "process_image")

PressAnalyzeDefect ==
    LET r == init_openai_client(secret, construct)
        defect_text == Truncate(defect_input, DEFECT_LIMIT)
        page == InitErrors(r)
                    \cup PageMessages(uploaded_file, context_input, defect_input)
    IN  /\ initFailed' = (initFailed \/ ClientOf(r) = "None")
        /\ StartRun("defect")
        /\ IF Stops(r)
           THEN /\ rendered' = FALSE
                /\ messages' = StopMessages(r)
                /\ SkipCore
           ELSE /\ rendered' = TRUE
                /\ IF DefectBlocked(defect_text)
                   THEN /\ messages' = page \cup {"warning: please enter a defect description"}
                        /\ SkipCore
                   ELSE /\ messages' = page \cup {"spinner"}
                        /\ EnterCore("analyze_defect", NoFile, defect_text,
                                     DEFECT_ANALYSIS_PROMPT, "build")

(***************************************************************************)
(* Inside analyze_image / analyze_defect.                                  *)
(***************************************************************************)
coreArgs == <<core, arg_file, arg_text, arg_prompt>>

\* The core function ends here with what its except clause makes of e.
Fail(e) ==
    /\ failure' = e
    /\ result' = analyze_handler(e)
    /\ pc' = "returned"

\* line 99: base64_image = process_image(image_file)
ProcessImage ==
    /\ pc = "process_image"
    /\ normalized' = process_image(arg_file)
    /\ IF normalized'.tag = "raise"
       THEN Fail(normalized')
       ELSE /\ pc' = "build"
            /\ UNCHANGED <<failure, result>>
    /\ UNCHANGED <<secret, construct, client, rendered, widgets, pressed, coreArgs,
                   request, reqState, calls, inflight, messages, initFailed>>

\* lines 102-119 and 139-148: client.chat.completions.create is looked up
\* and its arguments are evaluated.
Build ==
    /\ pc = "build"
    /\ IF client = "None"
       THEN /\ Fail(Raise("AttributeError",
                          "'NoneType' object has no attribute 'chat'"))
            /\ UNCHANGED <<request, reqState>>
       ELSE /\ request' = IF core = "analyze_image"
                          THEN ImageRequest(normalized.image, arg_text, arg_prompt)
                          ELSE DefectRequest(arg_text, arg_prompt)
            /\ reqState' = "Built"
            /\ pc' = "built"
            /\ UNCHANGED <<failure, result>>
    /\ UNCHANGED <<secret, construct, client, rendered, widgets, pressed, coreArgs,
                   normalized, calls, inflight, messages, initFailed>>

\* The request goes to the inference endpoint; the run blocks.
Send ==
    /\ pc # "idle"
    /\ reqState = "Built"
    /\ reqState' = "Sent"
    /\ calls' = calls + 1
    /\ inflight' = inflight + 1
    /\ pc' = "sent"
    /\ UNCHANGED <<secret, construct, client, rendered, widgets, pressed, coreArgs,
                   normalized, request, failure, result, messages, initFailed>>

\* lines 120-124 and 149-153: the content is returned, or the exception is
\* turned into an "Error: ..." string; either way the function is over.
\* a handler that queues the request again after a failure
AfterResponse_retry(o) == IF o.tag = "return" THEN "Succeeded" ELSE "Built"

AfterResponse(o) == IF o.tag = "return" THEN "Succeeded" ELSE "Failed"

Respond(o) ==
    /\ pc = "sent"
    /\ reqState = "Sent"
    /\ inflight' = inflight - 1
    /\ reqState' = AfterResponse(o)
    /\ IF o.tag = "return"
       THEN /\ result' = o
            /\ pc' = "returned"
            /\ UNCHANGED failure
       ELSE Fail(o)
    /\ UNCHANGED <<secret, construct, client, rendered, widgets, pressed, coreArgs,
                   normalized, request, calls, messages, initFailed>>

\* lines 219-223 and 249-253: main() shows the result, or the run dies with
\* the exception that came out of the core function.
ResultMessages(r) ==
    IF r.tag = "raise" THEN {"uncaught exception"}
    ELSE IF r.value # "" THEN {"results"}
    ELSE {"error: failed to retrieve analysis"}

\* What the rest of main() adds once the result is shown: after an image
\* analysis tab 2 is still to come; after a defect analysis nothing is; a
\* run that died with an exception adds nothing.
RestOfPage(r) ==
    IF r.tag = "return" /\ core = "analyze_image"
    THEN DefectLengthMessages(defect_input)
    ELSE {}

Render ==
    /\ pc = "returned"
    /\ messages' = (messages \ {"spinner"}) \cup ResultMessages(result)
                       \cup RestOfPage(result)
    /\ pc' = "idle"
    /\ UNCHANGED <<secret, construct, client, rendered, widgets, pressed, coreArgs,
                   normalized, request, reqState, calls, inflight, failure,
                   result, initFailed>>

Next ==
    \/ Load
    \/ \E f \in Files \cup {NoFile} : Upload(f)
    \/ \E t \in ContextInputs : EditContext(t)
    \/ \E t \in DefectInputs : EditDefect(t)
    \/ PressAnalyzeImage
    \/ PressAnalyzeDefect
    \/ ProcessImage
    \/ Build
    \/ Send
    \/ \E o \in Outcomes : Respond(o)
    \/ Render

Spec == Init /\ [][Next]_vars

TypeOK ==
    /\ pc \in {"idle", "process_image", "build", "built", "sent", "returned"}
    /\ reqState \in {"None", "Built", "Sent", "Succeeded", "Failed"}
    /\ core \in {"none", "analyze_image", "analyze_defect"}
    /\ calls \in 0..1
    /\ inflight \in 0..1

(***************************************************************************)
(* Properties.                                                             *)
(***************************************************************************)
Finished == result.tag # "pending"

Suffix(s, n) == SubSeq(s, Len(s) - n + 1, Len(s))

Prefix(s, n) == SubSeq(s, 1, n)

\* C1: whenever analyze_image or analyze_defect has finished, it has
\* returned a value to main() and raised nothing; and if image processing
\* or the inference call failed inside it, the value is the text "Error: "
\* followed by the message of that failure.
C1_NeverRaises ==
    Finished =>
        /\ result.tag = "return"
        /\ failure.tag = "raise" =>
               /\ result.value = "Error: " \o failure.value
               /\ Len(result.value) > Len("Error: ")

\* an inference call failed with an authentication error and analyze_image
\* has returned
C1_Witness ==
    /\ core = "analyze_image"
    /\ Finished
    /\ failure.tag = "raise"
    /\ failure.cls = "AuthenticationError"
    /\ reqState = "Failed"

\* C2: whenever analyze_image has been entered, the file it was given is at
\* most 5 * 1024 * 1024 bytes long.
C2_UploadWithinLimit ==
    core = "analyze_image" => arg_file.size <= 5 * 1024 * 1024

\* C3: once init_openai_client has returned None, the run has stopped
\* before the widgets: no core function is entered, no request exists and
\* no call of the inference client is made.
C3_HaltsWithoutCredential ==
    initFailed =>
        /\ ~rendered
        /\ pc = "idle"
        /\ core = "none"
        /\ reqState = "None"
        /\ request = NoRequest
        /\ calls = 0
        /\ inflight = 0

\* a run has failed to initialise the client and reported it
C3_Witness ==
    /\ initFailed
    /\ client = "None"
    /\ "error: failed to initialize" \in messages

\* C4: the request of one invocation only ever moves None -> Built -> Sent
\* -> Succeeded or Failed (a new run of main() starts over with no
\* request), and an invocation makes at most one attempt.
C4_Allowed ==
    {<<"None", "Built">>, <<"Built", "Sent">>,
     <<"Sent", "Succeeded">>, <<"Sent", "Failed">>}

C4_RequestStateMachine ==
    [][/\ calls' <= 1
       /\ reqState' # reqState =>
              \/ <<reqState, reqState'>> \in C4_Allowed
              \/ pc = "idle" /\ reqState' = "None"]_vars

\* a request has failed after its single attempt and the run is over
C4_Witness ==
    /\ reqState = "Failed"
    /\ calls = 1
    /\ pc = "idle"

\* C5 as stated: when the run started by a press of an analyze button is
\* over, exactly one call of the inference client has been made, and never
\* more than one request is in flight.
C5_ExactlyOneCall ==
    /\ inflight <= 1
    /\ (pressed # "none" /\ pc = "idle") => calls = 1

\* the inputs with which a press leads to a request
C5_Sendable ==
    \/ /\ pressed = "image"
       /\ uploaded_file.present
       /\ uploaded_file.mode = "RGB"
    \/ /\ pressed = "defect"
       /\ \E i \in 1..Len(defect_input) :
              i <= DEFECT_LIMIT /\ ~IsSpace(defect_input, i)

\* C5 (amended): a press makes at most one call of the inference client,
\* never with a second request in flight; when its run is over it has made
\* exactly one call if the input got as far as a request (Analyze Image: a
\* file is uploaded and process_image succeeds on it; Analyze Defect: the
\* text is not blank) and none otherwise.
C5_AtMostOneCall ==
    /\ inflight <= 1
    /\ calls <= 1
    /\ (pressed # "none" /\ pc = "idle") => (calls = 1 <=> C5_Sendable)

\* a press of Analyze Image with an undecodable upload has ended without a
\* call
C5_Witness ==
    /\ pressed = "image"
    /\ pc = "idle"
    /\ uploaded_file.mode = "bad"
    /\ core = "analyze_image"
    /\ calls = 0

\* C6: the text a core function is given is the user's input cut to its
\* first 500 (context) or 1000 (defect) characters, and the request built
\* from it ends with exactly that text.
C6_Bounded(text, input, limit) ==
    /\ Len(text) <= limit
    /\ text = Prefix(input, IF Len(input) < limit THEN Len(input) ELSE limit)
    /\ reqState # "None" => Suffix(request.text, Len(text)) = text

C6_TextBounded ==
    /\ core = "analyze_image" => C6_Bounded(arg_text, context_input, 500)
    /\ core = "analyze_defect" => C6_Bounded(arg_text, defect_input, 1000)

\* a defect text longer than 1000 characters has been sent
C6_Witness ==
    /\ core = "analyze_defect"
    /\ Len(defect_input) > 1000
    /\ Len(arg_text) = 1000
    /\ reqState = "Sent"

\* C7: analyze_defect is never entered with the empty string, and a press
\* of Analyze Defect with an empty text area enters no core function and
\* sends nothing.
C7_EmptyDefectBlocked ==
    /\ core = "analyze_defect" => arg_text # <<>>
    /\ (pressed = "defect" /\ defect_input = <<>>) =>
           /\ core = "none"
           /\ reqState = "None"
           /\ calls = 0
           /\ pc = "idle"

\* Analyze Defect has been pressed with an empty text area
C7_Witness ==
    /\ pressed = "defect"
    /\ defect_input = <<>>
    /\ "warning: please enter a defect description" \in messages

\* C8: process_image never raises: what it hands back for an undecodable
\* file is a returned value.
C8_NormalizeReturnsFailure ==
    normalized.tag # "raise"

\* C9: the image process_image encodes is at most 800 wide and 800 high and
\* at least 1 x 1; an image already within 800 x 800 keeps its dimensions;
\* 1200 x 900 becomes 800 x 600.
C9_ThumbnailBounds ==
    (core = "analyze_image" /\ normalized.tag = "return") =>
        LET out == normalized.image
        IN  /\ out.w >= 1 /\ out.w <= 800
            /\ out.h >= 1 /\ out.h <= 800
            /\ (arg_file.w <= 800 /\ arg_file.h <= 800) =>
                   (out.w = arg_file.w /\ out.h = arg_file.h)
            /\ (arg_file.w = 1200 /\ arg_file.h = 900) =>
                   (out.w = 800 /\ out.h = 600)

\* a 1200 x 900 image has been normalised
C9_Witness ==
    /\ core = "analyze_image"
    /\ normalized.tag = "return"
    /\ arg_file.w = 1200
    /\ arg_file.h = 900
    /\ normalized.image.w = 800

\* C10: the text block of a built request starts with the prompt and ends
\* with the user's text: the image request is the image prompt, then
\* "\n\nContext: ", then the context, next to the image reference
\* "data:image/jpeg;base64," + payload; the defect request is the defect
\* prompt + "\n\nDefect Comment: " + the defect text.
C10_TextBlock ==
    reqState # "None" =>
        /\ Prefix(request.text, Len(arg_prompt)) = arg_prompt
        /\ Suffix(request.text, Len(arg_text)) = arg_text
        /\ request.kind = "image" =>
               /\ arg_prompt = IMAGE_ANALYSIS_PROMPT
               /\ Len(request.text)
                      = Len(arg_prompt) + 11 + Len(arg_text)
               /\ request.url_prefix = "data:image/jpeg;base64,"
               /\ request.payload = normalized.image
        /\ request.kind = "defect" =>
               /\ arg_prompt = DEFECT_ANALYSIS_PROMPT
               /\ request.text
                      = DEFECT_ANALYSIS_PROMPT
                            \o Codes("\n\nDefect Comment: ") \o arg_text

\* an image request with a non-empty context has been built
C10_Witness ==
    /\ reqState = "Built"
    /\ request.kind = "image"
    /\ Len(arg_text) > 0
    /\ arg_text # CONTEXT_PLACEHOLDER

====
